---- MODULE Spec2Model ----
(***************************************************************************)
(* Model of the rate limiters of cassiopeia/type/api/rates.py:             *)
(* SingleRateLimiter (one semaphore, one lock, one epoch timer) and        *)
(* MultiRateLimiter (an ordered list of SingleRateLimiter).                *)
(*                                                                         *)
(* Every step is one atomic access of a thread to the shared state: one    *)
(* semaphore acquire or release, or one section under the limiter's lock   *)
(* that touches nothing but lock-protected fields.  _reset and reset_in    *)
(* hold the lock across several semaphore operations, so their lock is     *)
(* taken and released in separate steps.                                   *)
(***************************************************************************)
EXTENDS Integers, Sequences, FiniteSets

\* ------------------------------------------------------------- bounds
Capacity == 2        \* calls_per_epoch of the limiter used directly
NumThreads == 3      \* threads of Spec, each performing one operation
NumCallWaiters == 4  \* threads of SpecCallWait, each performing one call or wait
NumCallers == 4      \* threads of SpecCalls, each performing one call
LiveCallers == 3     \* threads of SpecCallsLive, each performing one call
MultiThreads == 2    \* threads of SpecMulti, each performing one operation
MultiCap1 == 1       \* calls_per_epoch of the first limit of the MultiRateLimiter
MultiCap2 == 2       \* calls_per_epoch of its second limit
NoLimitThreads == 4  \* threads of SpecNoLimits, each performing one operation

VARIABLES
    \* SingleRateLimiter fields, one entry per limiter (self.limits order)
    limit,              \* self.limit
    semaphore,          \* value of self.semaphore
    lock,               \* TRUE while self.lock is held
    current,            \* self.current
    resetter,           \* self.resetter: 0 is None, else the index of a timer
    total_calls,        \* self._total_calls
    successful_calls,   \* self._successful_calls
    timer,              \* the threading.Timer objects created so far
    \* threads
    pc,                 \* position of each thread: "idle" before its one
                        \* operation, "done" after it
    idx,                \* the limiter the thread is operating on
    mpc,                \* position inside a MultiRateLimiter method, or "none"
    successful_call,    \* local of SingleRateLimiter.call
    m_successful_call,  \* local of MultiRateLimiter.call
    \* history
    admitted,           \* tokens acquired by call since the last drain of a reset
    resets,             \* resets that have drained, per limiter
    superseded,         \* timers of reset_in outstanding when a later reset_in ran
    returned,           \* calls that returned normally to their caller
    raised,             \* calls that raised to their caller
    executed,           \* guarded operations that started executing
    probed              \* the semaphore value a wait saw just before its
                        \* acquire, until its release; 0 otherwise

limvars == <<limit, semaphore, lock, current, resetter, total_calls,
             successful_calls, timer>>
thvars == <<pc, idx, mpc, successful_call, m_successful_call>>
histvars == <<admitted, resets, superseded, returned, raised, executed, probed>>
vars == <<limvars, thvars, histvars>>

Threads == DOMAIN pc
Lims == DOMAIN limit

Upd(f, i, v) == [f EXCEPT ![i] = v]

\* ------------------------------------------------------------ timers
\* threading.Timer(interval, self._reset): "started" until it expires or is
\* cancelled; cancel() after expiry does not stop the function.
NewTimer(by) == [st |-> "started", n |-> 0, by |-> by]

StartTimer(i, by) ==
    /\ timer' = Upd(timer, i, Append(timer[i], NewTimer(by)))
    /\ resetter' = Upd(resetter, i, Len(timer[i]) + 1)

Cancel(tm) == IF tm.st = "started" THEN [tm EXCEPT !.st = "cancelled"] ELSE tm

Outstanding(tm) == tm.st \in {"started", "fired"}

\* where a SingleRateLimiter method returns to
After(t) == IF mpc[t] = "none" THEN "done" ELSE "m_ret"

\* Thread t may start its operation.  The threads are interchangeable, so
\* they are started in the order of their numbers.
CanStart(t) == pc[t] = "idle" /\ (IF t = 1 THEN TRUE ELSE pc[t - 1] # "idle")

\* ------------------------------------------- SingleRateLimiter.call
\* call(method, *args) on limiter i, used directly
CallStart(t, i) ==
    /\ CanStart(t)
    /\ pc' = Upd(pc, t, "c_acquire")
    /\ idx' = Upd(idx, t, i)
    /\ UNCHANGED <<limvars, histvars, mpc, successful_call, m_successful_call>>

\* self.semaphore.acquire(): blocks while the value is 0
CallAcquire(t) ==
    LET i == idx[t] IN
    /\ pc[t] = "c_acquire"
    /\ semaphore[i] > 0
    /\ semaphore' = Upd(semaphore, i, semaphore[i] - 1)
    /\ admitted' = Upd(admitted, i, admitted[i] + 1)
    /\ pc' = Upd(pc, t, "c_incr")
    /\ UNCHANGED <<limit, lock, current, resetter, total_calls, successful_calls,
                   timer, idx, mpc, successful_call, m_successful_call,
                   resets, superseded, returned, raised, executed, probed>>

\* with self.lock: self.current += 1
CallIncr(t) ==
    LET i == idx[t] IN
    /\ pc[t] = "c_incr"
    /\ ~lock[i]
    /\ current' = Upd(current, i, current[i] + 1)
    /\ pc' = Upd(pc, t, "c_method")
    /\ UNCHANGED <<limit, semaphore, lock, resetter, total_calls, successful_calls,
                   timer, idx, mpc, successful_call, m_successful_call,
                   histvars>>

\* the outcomes of "method(*args) if method else None": a method given by the
\* caller returns or raises, the method=None of MultiRateLimiter never raises
MethodOutcomes(t) == IF mpc[t] = "none" THEN {TRUE, FALSE} ELSE {TRUE}

\* try: return method(*args) ... except: successful_call = False; raise
CallMethod(t) ==
    /\ pc[t] = "c_method"
    /\ \E ok \in MethodOutcomes(t) :
          successful_call' = Upd(successful_call, t, ok)
    /\ executed' = IF mpc[t] = "none" THEN executed + 1 ELSE executed
    /\ pc' = Upd(pc, t, "c_finally")
    /\ UNCHANGED <<limvars, idx, mpc, m_successful_call,
                   admitted, resets, superseded, returned, raised, probed>>

\* a call counted as successful whatever its outcome
CountSuccessfulAlways(ok, n) == n + 1

\* if successful_call: self._successful_calls += 1
CountSuccessful(ok, n) == IF ok THEN n + 1 ELSE n

\* a call that never starts the epoch timer
EpochTimerNever(i) == UNCHANGED <<timer, resetter>>

\* if not self.resetter: self.resetter = threading.Timer(...); start()
EpochTimer(i) ==
    IF resetter[i] = 0
    THEN StartTimer(i, "call")
    ELSE UNCHANGED <<timer, resetter>>

\* finally: with self.lock: start the epoch timer if none runs, count the call
CallFinally(t) ==
    LET i == idx[t] IN
    /\ pc[t] = "c_finally"
    /\ ~lock[i]
    /\ EpochTimer(i)
    /\ current' = Upd(current, i, current[i] - 1)
    /\ total_calls' = Upd(total_calls, i, total_calls[i] + 1)
    /\ successful_calls' =
          Upd(successful_calls, i, CountSuccessful(successful_call[t], successful_calls[i]))
    /\ pc' = Upd(pc, t, IF mpc[t] = "none" THEN "c_exit" ELSE "m_ret")
    /\ UNCHANGED <<limit, semaphore, lock, idx, mpc, successful_call,
                   m_successful_call, histvars>>

\* the failure swallowed: the caller gets a normal return
DeliveredSwallowed(ok) == "returned"

\* what the caller of call gets once the finally block has run
Delivered(ok) == IF ok THEN "returned" ELSE "raised"

\* the return, or the re-raise, that leaves call
CallExit(t) ==
    /\ pc[t] = "c_exit"
    /\ returned' = IF Delivered(successful_call[t]) = "returned" THEN returned + 1 ELSE returned
    /\ raised' = IF Delivered(successful_call[t]) = "raised" THEN raised + 1 ELSE raised
    /\ pc' = Upd(pc, t, "done")
    /\ successful_call' = Upd(successful_call, t, TRUE)
    /\ UNCHANGED <<limvars, idx, mpc, m_successful_call,
                   admitted, resets, superseded, executed, probed>>

\* ------------------------------------------- SingleRateLimiter.wait
WaitStart(t, i) ==
    /\ CanStart(t)
    /\ pc' = Upd(pc, t, "w_acquire")
    /\ idx' = Upd(idx, t, i)
    /\ UNCHANGED <<limvars, histvars, mpc, successful_call, m_successful_call>>

\* self.semaphore.acquire()
WaitAcquire(t) ==
    LET i == idx[t] IN
    /\ pc[t] = "w_acquire"
    /\ semaphore[i] > 0
    /\ semaphore' = Upd(semaphore, i, semaphore[i] - 1)
    /\ probed' = Upd(probed, t, semaphore[i])
    /\ pc' = Upd(pc, t, "w_release")
    /\ UNCHANGED <<limit, lock, current, resetter, total_calls, successful_calls,
                   timer, idx, mpc, successful_call, m_successful_call,
                   admitted, resets, superseded, returned, raised, executed>>

\* a wait that keeps the token it acquired
ReleasedNot(n) == n

\* the value of the semaphore after release(): threading.Semaphore has no
\* upper bound
Released(n) == n + 1

\* self.semaphore.release()
WaitRelease(t) ==
    LET i == idx[t] IN
    /\ pc[t] = "w_release"
    /\ semaphore' = Upd(semaphore, i, Released(semaphore[i]))
    /\ probed' = Upd(probed, t, 0)
    /\ pc' = Upd(pc, t, After(t))
    /\ UNCHANGED <<limit, lock, current, resetter, total_calls, successful_calls,
                   timer, idx, mpc, successful_call, m_successful_call,
                   admitted, resets, superseded, returned, raised, executed>>

\* --------------------------------------- SingleRateLimiter.reset_in
ResetInStart(t, i) ==
    /\ CanStart(t)
    /\ pc' = Upd(pc, t, "r_lock")
    /\ idx' = Upd(idx, t, i)
    /\ UNCHANGED <<limvars, histvars, mpc, successful_call, m_successful_call>>

\* timers scheduled by an earlier reset_in that have not run when this one runs
StillOutstanding(i) ==
    {<<i, k>> : k \in {j \in DOMAIN timer[i] :
                          timer[i][j].by = "reset_in" /\ Outstanding(timer[i][j])}}

\* with self.lock: if self.resetter: self.resetter.cancel()
ResetInLock(t) ==
    LET i == idx[t] IN
    /\ pc[t] = "r_lock"
    /\ ~lock[i]
    /\ lock' = Upd(lock, i, TRUE)
    /\ timer' = IF resetter[i] = 0 THEN timer
                ELSE Upd(timer, i, Upd(timer[i], resetter[i], Cancel(timer[i][resetter[i]])))
    /\ superseded' = superseded \cup StillOutstanding(i)
    /\ pc' = Upd(pc, t, "r_drain")
    /\ UNCHANGED <<limit, semaphore, current, resetter, total_calls,
                   successful_calls, idx, mpc, successful_call, m_successful_call,
                    admitted, resets, returned, raised, executed, probed>>

\* _drain: while self.semaphore.acquire(False): pass  (one successful acquire)
ResetInDrain(t) ==
    LET i == idx[t] IN
    /\ pc[t] = "r_drain"
    /\ semaphore[i] > 0
    /\ semaphore' = Upd(semaphore, i, semaphore[i] - 1)
    /\ UNCHANGED <<limit, lock, current, resetter, total_calls, successful_calls,
                   timer, thvars, histvars>>

\* the acquire(False) that fails ends _drain; then the new timer is started
\* and the with block releases the lock
ResetInSchedule(t) ==
    LET i == idx[t] IN
    /\ pc[t] = "r_drain"
    /\ semaphore[i] = 0
    /\ StartTimer(i, "reset_in")
    /\ lock' = Upd(lock, i, FALSE)
    /\ pc' = Upd(pc, t, After(t))
    /\ UNCHANGED <<limit, semaphore, current, total_calls, successful_calls,
                   idx, mpc, successful_call, m_successful_call,
                   histvars>>

\* ------------------------------- threading.Timer and _reset (timer k of limiter i)
SetTimer(i, k, tm) == timer' = Upd(timer, i, Upd(timer[i], k, tm))

\* the interval elapses before any cancel: the timer thread calls self._reset
TimerExpire(i, k) ==
    /\ timer[i][k].st = "started"
    /\ SetTimer(i, k, [timer[i][k] EXCEPT !.st = "fired"])
    /\ UNCHANGED <<limit, semaphore, lock, current, resetter, total_calls,
                   successful_calls, thvars, histvars>>

\* self.lock.acquire()
ResetLock(i, k) ==
    /\ timer[i][k].st = "fired"
    /\ ~lock[i]
    /\ lock' = Upd(lock, i, TRUE)
    /\ SetTimer(i, k, [timer[i][k] EXCEPT !.st = "drain"])
    /\ UNCHANGED <<limit, semaphore, current, resetter, total_calls,
                   successful_calls, thvars, histvars>>

\* _drain: one successful acquire(False)
ResetDrain(i, k) ==
    /\ timer[i][k].st = "drain"
    /\ semaphore[i] > 0
    /\ semaphore' = Upd(semaphore, i, semaphore[i] - 1)
    /\ UNCHANGED <<limit, lock, current, resetter, total_calls, successful_calls,
                   timer, thvars, histvars>>

\* a reset that releases no token
RefillNone(i) == 0

\* len(range(self.limit - self.current))
RefillCount(i) == IF limit[i] - current[i] > 0 THEN limit[i] - current[i] ELSE 0

\* the acquire(False) that fails ends _drain; the refill loop is entered
ResetDrained(i, k) ==
    /\ timer[i][k].st = "drain"
    /\ semaphore[i] = 0
    /\ SetTimer(i, k, [timer[i][k] EXCEPT !.st = "refill", !.n = RefillCount(i)])
    /\ admitted' = Upd(admitted, i, 0)
    /\ resets' = Upd(resets, i, resets[i] + 1)
    /\ UNCHANGED <<limit, semaphore, lock, current, resetter, total_calls,
                   successful_calls, thvars, superseded, returned, raised, executed,
                   probed>>

\* for _ in range(...): self.semaphore.release()
ResetRelease(i, k) ==
    /\ timer[i][k].st = "refill"
    /\ timer[i][k].n > 0
    /\ semaphore' = Upd(semaphore, i, semaphore[i] + 1)
    /\ SetTimer(i, k, [timer[i][k] EXCEPT !.n = @ - 1])
    /\ UNCHANGED <<limit, lock, current, resetter, total_calls, successful_calls,
                   thvars, histvars>>

\* self.resetter = None; self.lock.release()
ResetFinish(i, k) ==
    /\ timer[i][k].st = "refill"
    /\ timer[i][k].n = 0
    /\ resetter' = Upd(resetter, i, 0)
    /\ lock' = Upd(lock, i, FALSE)
    /\ SetTimer(i, k, [timer[i][k] EXCEPT !.st = "done"])
    /\ UNCHANGED <<limit, semaphore, current, total_calls, successful_calls,
                   thvars, histvars>>

\* ------------------------------------------------ MultiRateLimiter
\* the loop entered at its last member
LoopFromLast(t, first, m, after) ==
    /\ pc' = Upd(pc, t, first)
    /\ mpc' = Upd(mpc, t, m)
    /\ idx' = Upd(idx, t, Len(limit))

\* the loop entered at its body whatever self.limits holds
LoopNonEmpty(t, first, m, after) ==
    /\ pc' = Upd(pc, t, first)
    /\ mpc' = Upd(mpc, t, m)
    /\ idx' = Upd(idx, t, 1)

\* the position a thread takes when it enters "for limit in self.limits" with
\* body first, or leaves it for after when self.limits is empty
Loop(t, first, m, after) ==
    IF Len(limit) = 0
    THEN /\ pc' = Upd(pc, t, after)
         /\ mpc' = Upd(mpc, t, IF after = "done" THEN "none" ELSE m)
         /\ idx' = idx
    ELSE /\ pc' = Upd(pc, t, first)
         /\ mpc' = Upd(mpc, t, m)
         /\ idx' = Upd(idx, t, 1)

\* the loop left after its first round
LoopNextLeave(t, first, m, after) ==
    /\ pc' = Upd(pc, t, after)
    /\ mpc' = Upd(mpc, t, IF after = "done" THEN "none" ELSE m)
    /\ idx' = idx

\* the next round of the loop, or the position after it
LoopNext(t, first, m, after) ==
    IF idx[t] < Len(limit)
    THEN /\ pc' = Upd(pc, t, first)
         /\ mpc' = Upd(mpc, t, m)
         /\ idx' = Upd(idx, t, idx[t] + 1)
    ELSE /\ pc' = Upd(pc, t, after)
         /\ mpc' = Upd(mpc, t, IF after = "done" THEN "none" ELSE m)
         /\ idx' = idx

\* MultiRateLimiter.call: self.wait() first
MCallStart(t) ==
    /\ CanStart(t)
    /\ Loop(t, "w_acquire", "call_wait", "m_method")
    /\ UNCHANGED <<limvars, histvars, successful_call, m_successful_call>>

\* MultiRateLimiter.wait
MWaitStart(t) ==
    /\ CanStart(t)
    /\ Loop(t, "w_acquire", "wait", "done")
    /\ UNCHANGED <<limvars, histvars, successful_call, m_successful_call>>

\* for limit in self.limits: limit.wait()   (one member's wait has returned)
MWaitNext(t) ==
    /\ pc[t] = "m_ret"
    /\ mpc[t] \in {"call_wait", "wait"}
    /\ LoopNext(t, "w_acquire", mpc[t], IF mpc[t] = "wait" THEN "done" ELSE "m_method")
    /\ UNCHANGED <<limvars, histvars, successful_call, m_successful_call>>

\* try: return method(*args) ... except: successful_call = False; raise
\* and the entry of the finally block's loop
MMethod(t) ==
    /\ pc[t] = "m_method"
    /\ \E ok \in {TRUE, FALSE} :
          m_successful_call' = Upd(m_successful_call, t, ok)
    /\ executed' = executed + 1
    /\ Loop(t, "c_acquire", "call_count", "m_exit")
    /\ UNCHANGED <<limvars, successful_call, admitted, resets,
                   superseded, returned, raised, probed>>

\* limit.call() has returned: if not successful_call, go on to
\* limit._decrease_successful_calls(), else to the next member
MCounted(t) ==
    /\ pc[t] = "m_ret"
    /\ mpc[t] = "call_count"
    /\ IF m_successful_call[t]
       THEN LoopNext(t, "c_acquire", "call_count", "m_exit")
       ELSE /\ pc' = Upd(pc, t, "d_lock")
            /\ UNCHANGED <<mpc, idx>>
    /\ UNCHANGED <<limvars, histvars, successful_call, m_successful_call>>

\* the correction applied twice
DecreasedTwice(n) == n - 2

\* the correction of the optimistic count left out
DecreasedNot(n) == n

\* self._successful_calls -= 1
Decreased(n) == n - 1

\* _decrease_successful_calls: with self.lock: self._successful_calls -= 1
DecreaseSuccessfulCalls(t) ==
    LET i == idx[t] IN
    /\ pc[t] = "d_lock"
    /\ ~lock[i]
    /\ successful_calls' = Upd(successful_calls, i, Decreased(successful_calls[i]))
    /\ LoopNext(t, "c_acquire", "call_count", "m_exit")
    /\ UNCHANGED <<limit, semaphore, lock, current, resetter, total_calls, timer,
                   successful_call, m_successful_call, histvars>>

\* the return, or the re-raise, that leaves MultiRateLimiter.call
MCallExit(t) ==
    /\ pc[t] = "m_exit"
    /\ returned' = IF Delivered(m_successful_call[t]) = "returned" THEN returned + 1 ELSE returned
    /\ raised' = IF Delivered(m_successful_call[t]) = "raised" THEN raised + 1 ELSE raised
    /\ pc' = Upd(pc, t, "done")
    /\ mpc' = Upd(mpc, t, "none")
    /\ m_successful_call' = Upd(m_successful_call, t, TRUE)
    /\ UNCHANGED <<limvars, idx, successful_call,
                   admitted, resets, superseded, executed, probed>>

\* MultiRateLimiter.reset_in
MResetInStart(t) ==
    /\ CanStart(t)
    /\ Loop(t, "r_lock", "reset_in", "done")
    /\ UNCHANGED <<limvars, histvars, successful_call, m_successful_call>>

\* for limit in self.limits: limit.reset_in(seconds)   (one member's has returned)
MResetInNext(t) ==
    /\ pc[t] = "m_ret"
    /\ mpc[t] = "reset_in"
    /\ LoopNext(t, "r_lock", "reset_in", "done")
    /\ UNCHANGED <<limvars, histvars, successful_call, m_successful_call>>

\* SingleRateLimiter.calls, the (successful calls, total calls) tuple
calls(i) == <<successful_calls[i], total_calls[i]>>

\* MultiRateLimiter.calls: self.limits[0].calls, or 0 on IndexError
MCalls == IF Len(limit) = 0 THEN 0 ELSE calls(1)

\* ------------------------------------------------- specifications
\* __init__ of one SingleRateLimiter per entry of caps; nthreads threads that
\* have not started their operation
InitWith(caps, nthreads) ==
    /\ limit = caps
    /\ semaphore = caps
    /\ lock = [i \in DOMAIN caps |-> FALSE]
    /\ current = [i \in DOMAIN caps |-> 0]
    /\ resetter = [i \in DOMAIN caps |-> 0]
    /\ total_calls = [i \in DOMAIN caps |-> 0]
    /\ successful_calls = [i \in DOMAIN caps |-> 0]
    /\ timer = [i \in DOMAIN caps |-> <<>>]
    /\ pc = [t \in 1..nthreads |-> "idle"]
    /\ idx = [t \in 1..nthreads |-> 1]
    /\ mpc = [t \in 1..nthreads |-> "none"]
    /\ successful_call = [t \in 1..nthreads |-> TRUE]
    /\ m_successful_call = [t \in 1..nthreads |-> TRUE]
    /\ admitted = [i \in DOMAIN caps |-> 0]
    /\ resets = [i \in DOMAIN caps |-> 0]
    /\ superseded = {}
    /\ returned = 0
    /\ raised = 0
    /\ executed = 0
    /\ probed = [t \in 1..nthreads |-> 0]

\* One SingleRateLimiter used directly by NumThreads threads, any operation
Init == InitWith(<<Capacity>>, NumThreads)

Next ==
    \/ \E t \in Threads : CallStart(t, 1)
    \/ \E t \in Threads : WaitStart(t, 1)
    \/ \E t \in Threads : ResetInStart(t, 1)
    \/ \E t \in Threads : CallAcquire(t)
    \/ \E t \in Threads : CallIncr(t)
    \/ \E t \in Threads : CallMethod(t)
    \/ \E t \in Threads : CallFinally(t)
    \/ \E t \in Threads : CallExit(t)
    \/ \E t \in Threads : WaitAcquire(t)
    \/ \E t \in Threads : WaitRelease(t)
    \/ \E t \in Threads : ResetInLock(t)
    \/ \E t \in Threads : ResetInDrain(t)
    \/ \E t \in Threads : ResetInSchedule(t)
    \/ \E i \in Lims : \E k \in DOMAIN timer[i] : TimerExpire(i, k)
    \/ \E i \in Lims : \E k \in DOMAIN timer[i] : ResetLock(i, k)
    \/ \E i \in Lims : \E k \in DOMAIN timer[i] : ResetDrain(i, k)
    \/ \E i \in Lims : \E k \in DOMAIN timer[i] : ResetDrained(i, k)
    \/ \E i \in Lims : \E k \in DOMAIN timer[i] : ResetRelease(i, k)
    \/ \E i \in Lims : \E k \in DOMAIN timer[i] : ResetFinish(i, k)

Spec == Init /\ [][Next]_vars

\* One SingleRateLimiter, NumCallers threads each performing one call
InitCalls == InitWith(<<Capacity>>, NumCallers)

NextCalls ==
    \/ \E t \in Threads : CallStart(t, 1)
    \/ \E t \in Threads : CallAcquire(t)
    \/ \E t \in Threads : CallIncr(t)
    \/ \E t \in Threads : CallMethod(t)
    \/ \E t \in Threads : CallFinally(t)
    \/ \E t \in Threads : CallExit(t)
    \/ \E i \in Lims : \E k \in DOMAIN timer[i] : TimerExpire(i, k)
    \/ \E i \in Lims : \E k \in DOMAIN timer[i] : ResetLock(i, k)
    \/ \E i \in Lims : \E k \in DOMAIN timer[i] : ResetDrain(i, k)
    \/ \E i \in Lims : \E k \in DOMAIN timer[i] : ResetDrained(i, k)
    \/ \E i \in Lims : \E k \in DOMAIN timer[i] : ResetRelease(i, k)
    \/ \E i \in Lims : \E k \in DOMAIN timer[i] : ResetFinish(i, k)

SpecCalls == InitCalls /\ [][NextCalls]_vars

\* the same, every thread and every started timer scheduled eventually: the
\* behaviours are finite, so it is enough that some enabled step is taken
InitCallsLive == InitWith(<<Capacity>>, LiveCallers)

SpecCallsLive == InitCallsLive /\ [][NextCalls]_vars /\ WF_vars(NextCalls)

\* One SingleRateLimiter, NumCallWaiters threads each performing one call or
\* one wait: reset_in is not used
InitCallWait == InitWith(<<Capacity>>, NumCallWaiters)

NextCallWait ==
    \/ \E t \in Threads : CallStart(t, 1)
    \/ \E t \in Threads : WaitStart(t, 1)
    \/ \E t \in Threads : CallAcquire(t)
    \/ \E t \in Threads : CallIncr(t)
    \/ \E t \in Threads : CallMethod(t)
    \/ \E t \in Threads : CallFinally(t)
    \/ \E t \in Threads : CallExit(t)
    \/ \E t \in Threads : WaitAcquire(t)
    \/ \E t \in Threads : WaitRelease(t)
    \/ \E i \in Lims : \E k \in DOMAIN timer[i] : TimerExpire(i, k)
    \/ \E i \in Lims : \E k \in DOMAIN timer[i] : ResetLock(i, k)
    \/ \E i \in Lims : \E k \in DOMAIN timer[i] : ResetDrain(i, k)
    \/ \E i \in Lims : \E k \in DOMAIN timer[i] : ResetDrained(i, k)
    \/ \E i \in Lims : \E k \in DOMAIN timer[i] : ResetRelease(i, k)
    \/ \E i \in Lims : \E k \in DOMAIN timer[i] : ResetFinish(i, k)

SpecCallWait == InitCallWait /\ [][NextCallWait]_vars

\* A MultiRateLimiter over two limits, MultiThreads threads each performing
\* one operation
InitMulti == InitWith(<<MultiCap1, MultiCap2>>, MultiThreads)

NextMulti ==
    \/ \E t \in Threads : MCallStart(t)
    \/ \E t \in Threads : MWaitStart(t)
    \/ \E t \in Threads : MResetInStart(t)
    \/ \E t \in Threads : MWaitNext(t)
    \/ \E t \in Threads : MMethod(t)
    \/ \E t \in Threads : MCounted(t)
    \/ \E t \in Threads : DecreaseSuccessfulCalls(t)
    \/ \E t \in Threads : MCallExit(t)
    \/ \E t \in Threads : MResetInNext(t)
    \/ \E t \in Threads : CallAcquire(t)
    \/ \E t \in Threads : CallIncr(t)
    \/ \E t \in Threads : CallMethod(t)
    \/ \E t \in Threads : CallFinally(t)
    \/ \E t \in Threads : WaitAcquire(t)
    \/ \E t \in Threads : WaitRelease(t)
    \/ \E t \in Threads : ResetInLock(t)
    \/ \E t \in Threads : ResetInDrain(t)
    \/ \E t \in Threads : ResetInSchedule(t)
    \/ \E i \in Lims : \E k \in DOMAIN timer[i] : TimerExpire(i, k)
    \/ \E i \in Lims : \E k \in DOMAIN timer[i] : ResetLock(i, k)
    \/ \E i \in Lims : \E k \in DOMAIN timer[i] : ResetDrain(i, k)
    \/ \E i \in Lims : \E k \in DOMAIN timer[i] : ResetDrained(i, k)
    \/ \E i \in Lims : \E k \in DOMAIN timer[i] : ResetRelease(i, k)
    \/ \E i \in Lims : \E k \in DOMAIN timer[i] : ResetFinish(i, k)

SpecMulti == InitMulti /\ [][NextMulti]_vars

\* The same MultiRateLimiter, whose first member is also used directly:
\* every thread performs one operation of the MultiRateLimiter or one
\* limits[0].call(method)
NextMixed ==
    \/ \E t \in Threads : CallStart(t, 1)
    \/ \E t \in Threads : CallExit(t)
    \/ \E t \in Threads : MCallStart(t)
    \/ \E t \in Threads : MWaitStart(t)
    \/ \E t \in Threads : MResetInStart(t)
    \/ \E t \in Threads : MWaitNext(t)
    \/ \E t \in Threads : MMethod(t)
    \/ \E t \in Threads : MCounted(t)
    \/ \E t \in Threads : DecreaseSuccessfulCalls(t)
    \/ \E t \in Threads : MCallExit(t)
    \/ \E t \in Threads : MResetInNext(t)
    \/ \E t \in Threads : CallAcquire(t)
    \/ \E t \in Threads : CallIncr(t)
    \/ \E t \in Threads : CallMethod(t)
    \/ \E t \in Threads : CallFinally(t)
    \/ \E t \in Threads : WaitAcquire(t)
    \/ \E t \in Threads : WaitRelease(t)
    \/ \E t \in Threads : ResetInLock(t)
    \/ \E t \in Threads : ResetInDrain(t)
    \/ \E t \in Threads : ResetInSchedule(t)
    \/ \E i \in Lims : \E k \in DOMAIN timer[i] : TimerExpire(i, k)
    \/ \E i \in Lims : \E k \in DOMAIN timer[i] : ResetLock(i, k)
    \/ \E i \in Lims : \E k \in DOMAIN timer[i] : ResetDrain(i, k)
    \/ \E i \in Lims : \E k \in DOMAIN timer[i] : ResetDrained(i, k)
    \/ \E i \in Lims : \E k \in DOMAIN timer[i] : ResetRelease(i, k)
    \/ \E i \in Lims : \E k \in DOMAIN timer[i] : ResetFinish(i, k)

SpecMixed == InitMulti /\ [][NextMixed]_vars

\* MultiRateLimiter() with no limits, NoLimitThreads threads each performing
\* one operation.  self.limits is empty, so no loop body and no method, timer
\* or _reset of a SingleRateLimiter is ever entered.
InitNoLimits == InitWith(<<>>, NoLimitThreads)

NextNoLimits ==
    \/ \E t \in Threads : MCallStart(t)
    \/ \E t \in Threads : MWaitStart(t)
    \/ \E t \in Threads : MResetInStart(t)
    \/ \E t \in Threads : MMethod(t)
    \/ \E t \in Threads : MCallExit(t)

SpecNoLimits == InitNoLimits /\ [][NextNoLimits]_vars

\* ------------------------------------------------------------ claims
CallPcs == {"c_acquire", "c_incr", "c_method", "c_finally", "c_exit"}

Min(a, b) == IF a <= b THEN a ELSE b

\* C1: with calls, waits and timer resets only, the calls admitted in a window
\* (up to the first reset, or between two resets) never exceed the capacity,
\* and once the capacity is admitted no token is available before a reset.
C1_QuotaPerWindow ==
    /\ admitted[1] <= limit[1]
    /\ admitted[1] >= limit[1] => semaphore[1] = 0

\* C2: with NumCallers > Capacity threads each performing one call, inFlight
\* never exceeds the capacity, nor does the number of threads that hold an
\* admission and have not finished.
C2_InFlightBound ==
    /\ current[1] <= limit[1]
    /\ Cardinality({t \in Threads : pc[t] \in {"c_incr", "c_method", "c_finally"}})
          <= limit[1]

\* C3: as long as no reset has fired, at most min(C1, C2) guarded operations
\* of the MultiRateLimiter have started executing.
C3_MinAdmitted ==
    (\A i \in Lims : resets[i] = 0) => executed <= Min(limit[1], limit[2])

\* C4: with no call in progress, after K = returned + raised completed calls
\* of which F = raised failed, calls returns (K - F, K).
C4_Stats ==
    (\A t \in Threads : pc[t] \notin CallPcs) =>
        calls(1) = <<(returned + raised) - raised, returned + raised>>

C4_Witness ==
    /\ \A t \in Threads : pc[t] \notin CallPcs
    /\ returned >= 1 /\ raised >= 1 /\ resets[1] >= 1

\* thread t's MultiRateLimiter.call has completed limit.call() on member i
Counted(t, i) ==
    /\ mpc[t] = "call_count"
    /\ \/ pc[t] = "m_exit"
       \/ idx[t] > i
       \/ idx[t] = i /\ pc[t] \in {"m_ret", "d_lock"}

\* thread t's failed MultiRateLimiter.call has completed
\* limit._decrease_successful_calls() on member i
Uncounted(t, i) ==
    /\ mpc[t] = "call_count"
    /\ ~m_successful_call[t]
    /\ (pc[t] = "m_exit" \/ idx[t] > i)

\* C5: every MultiRateLimiter.call adds exactly one to every member's total
\* calls, and a failed one adds nothing to any member's successful calls once
\* it is about to raise: the members' counters are the delivered calls plus
\* what the calls still in their finally block have done so far, and a call
\* at its exit has been counted (and, if failed, corrected) on every member.
C5_FailedCallAccounting ==
    \A i \in Lims :
        /\ total_calls[i] =
              returned + raised + Cardinality({t \in Threads : Counted(t, i)})
        /\ successful_calls[i] =
              returned + Cardinality({t \in Threads : Counted(t, i) /\ ~Uncounted(t, i)})

C5_Witness ==
    \E t \in Threads :
        /\ pc[t] = "m_exit" /\ ~m_successful_call[t]
        /\ raised >= 1
        /\ \A i \in Lims : total_calls[i] = returned + raised + 1
                           /\ successful_calls[i] = returned

\* C6: a call whose operation failed runs its bookkeeping (inFlight back,
\* total calls plus one, successful calls unchanged, a timer outstanding in
\* self.resetter) and only then raises to its caller: the failure is neither
\* swallowed nor retried.
C6_FailurePropagates ==
    [][\A t \in Threads :
          LET i == idx[t] IN
          /\ (pc[t] = "c_finally" /\ pc'[t] # "c_finally" /\ ~successful_call[t]) =>
                /\ pc'[t] = "c_exit"
                /\ current'[i] = current[i] - 1
                /\ total_calls'[i] = total_calls[i] + 1
                /\ successful_calls'[i] = successful_calls[i]
                /\ resetter'[i] # 0
                /\ Outstanding(timer'[i][resetter'[i]])
          /\ (pc[t] = "c_exit" /\ pc'[t] # "c_exit" /\ ~successful_call[t]) =>
                /\ raised' = raised + 1
                /\ returned' = returned
                /\ pc'[t] = "done"
                /\ executed' = executed
          /\ (returned' # returned /\ pc'[t] # pc[t]) =>
                pc[t] = "c_exit" /\ successful_call[t]
      ]_vars

C6_Witness ==
    raised >= 1 /\ total_calls[1] > successful_calls[1]

\* C7: a reset scheduled by reset_in that is still outstanding (started, or
\* expired and waiting for the lock) when reset_in is called again never
\* executes.
C7_SupersededNeverRuns ==
    \A ik \in superseded :
        timer[ik[1]][ik[2]].st \notin {"drain", "refill", "done"}

\* C8: with LiveCallers > Capacity threads each performing one call, every
\* call is eventually admitted and completes: total calls reaches LiveCallers.
C8_AllCallsComplete == <>(total_calls[1] = LiveCallers)

C8_Witness ==
    /\ total_calls[1] = LiveCallers
    /\ resets[1] >= 1
    /\ \A t \in Threads : pc[t] = "done"

\* C9: availableTokens + inFlight <= capacity in every reachable state.
C9_TokensPlusInFlight == semaphore[1] + current[1] <= limit[1]

\* C10: after a reset the available tokens never exceed the capacity, also
\* when call or wait acquire or release tokens during the drain and refill
\* (the bound that "capacity - inFlight at the end of the reset" promises).
C10_ResetWithinCapacity ==
    resets[1] >= 1 => semaphore[1] <= limit[1]

\* C11: the limiter has at most one reset timer that is started and neither
\* expired nor cancelled, and, whenever its lock is free, self.resetter is set
\* exactly when a timer is outstanding (started, or expired and waiting for
\* the lock).
C11_OneOutstandingTimer ==
    /\ Cardinality({k \in DOMAIN timer[1] : timer[1][k].st = "started"}) <= 1
    /\ ~lock[1] =>
          (resetter[1] # 0 <=> \E k \in DOMAIN timer[1] : Outstanding(timer[1][k]))

\* C12: from the return of reset_in until the timer it started expires (the
\* timer is started, neither expired nor cancelled) no token is available, so
\* no call can be admitted.
C12_DrainedUntilReset ==
    \A k \in DOMAIN timer[1] :
        (timer[1][k].by = "reset_in" /\ timer[1][k].st = "started") =>
            semaphore[1] = 0

\* C13: a MultiRateLimiter without limits never blocks in call or wait: no
\* thread is ever at a semaphore or a lock, a call at its method or at its
\* exit can always take its step, every call that passed its method executed
\* it exactly once, and calls is 0 in every state.
C13_NoLimitsNeverBlocks ==
    /\ MCalls = 0
    /\ \A t \in Threads :
          /\ pc[t] \in {"idle", "m_method", "m_exit", "done"}
          /\ pc[t] = "m_method" => ENABLED MMethod(t)
          /\ pc[t] = "m_exit" => ENABLED MCallExit(t)
    /\ executed = returned + raised + Cardinality({t \in Threads : pc[t] = "m_exit"})

C13_Witness ==
    /\ Len(limit) = 0
    /\ \A t \in Threads : pc[t] = "done"
    /\ returned >= 1 /\ raised >= 1
    /\ returned + raised < Cardinality(Threads)

\* C14: a MultiRateLimiter.call executes its method exactly once, at the step
\* that leaves the method, and then takes exactly one token from every member
\* in the order of self.limits: its finally block starts at member 1, each
\* round acquires the semaphore of its member once and of no other, the next
\* round is the next member, the call reaches its exit only from the last
\* member and completes only from its exit, whether the method returned or
\* raised.  The probes of its wait() before the method give back what they
\* take.
C14_OncePerMember ==
    [][\A t \in Threads :
          /\ (pc[t] = "m_method" /\ pc'[t] # "m_method") =>
                /\ executed' = executed + 1
                /\ semaphore' = semaphore
                /\ mpc'[t] = "call_count" /\ pc'[t] = "c_acquire" /\ idx'[t] = 1
          /\ (mpc[t] = "call_count" /\ pc'[t] # pc[t]) =>
                /\ executed' = executed
                /\ IF pc[t] = "c_acquire"
                   THEN semaphore' = Upd(semaphore, idx[t], semaphore[idx[t]] - 1)
                   ELSE semaphore' = semaphore
                /\ pc'[t] = "c_acquire" =>
                      pc[t] \in {"m_ret", "d_lock"} /\ idx'[t] = idx[t] + 1
                /\ pc'[t] # "c_acquire" => idx'[t] = idx[t]
                /\ pc'[t] = "m_exit" =>
                      pc[t] \in {"m_ret", "d_lock"} /\ idx[t] = Len(limit)
                /\ pc'[t] = "done" => pc[t] = "m_exit"
          /\ (mpc[t] = "call_wait" /\ pc[t] # "m_method" /\ pc'[t] # pc[t]) =>
                /\ executed' = executed
                /\ semaphore' =
                      IF pc[t] = "w_acquire"
                      THEN Upd(semaphore, idx[t], semaphore[idx[t]] - 1)
                      ELSE IF pc[t] = "w_release"
                      THEN Upd(semaphore, idx[t], semaphore[idx[t]] + 1)
                      ELSE semaphore
      ]_vars

C14_Witness ==
    /\ Len(limit) = 2
    /\ \A t \in Threads : pc[t] = "done"
    /\ returned = 1 /\ raised = 1 /\ executed = 2
    /\ \A i \in Lims : total_calls[i] = 2 /\ resets[i] >= 1

\* no _reset and no reset_in has touched the semaphore of limiter i so far
NoResetSoFar(i) ==
    /\ resets[i] = 0
    /\ \A k \in DOMAIN timer[i] :
          timer[i][k].by = "call" /\ timer[i][k].st \in {"started", "fired"}
    /\ \A u \in Threads : ~(idx[u] = i /\ pc[u] = "r_drain")

\* thread t takes a step of SingleRateLimiter.wait
WaitStep(t) == pc[t] \in {"w_acquire", "w_release"} /\ pc'[t] # pc[t]

\* what every step of wait satisfies: it acquires only an available token,
\* changes the semaphore by its own acquire or release only, and leaves
\* current, the call counters, self.resetter and the timers alone
WaitFrame(t) ==
    LET i == idx[t] IN
    /\ pc[t] = "w_acquire" =>
          semaphore[i] > 0 /\ semaphore' = Upd(semaphore, i, semaphore[i] - 1)
    /\ pc[t] = "w_release" => semaphore' = Upd(semaphore, i, semaphore[i] + 1)
    /\ UNCHANGED <<current, total_calls, successful_calls, resetter, timer, lock>>

\* tokens of limiter i held by waits between their acquire and their release
Probing(i) == Cardinality({u \in Threads : idx[u] = i /\ pc[u] = "w_release"})

C16_NoPhantomSuccess ==
    MCalls[1] <=
        returned + Cardinality({t \in Threads :
                                   mpc[t] = "call_count" /\ m_successful_call[t]})

\* no thread is inside call, wait or reset_in of limiter 1 and none of its
\* timers is inside _reset (expired and waiting for the lock included)
Quiescent ==
    /\ \A t \in Threads : pc[t] \in {"idle", "done"}
    /\ \A k \in DOMAIN timer[1] : timer[1][k].st \notin {"fired", "drain", "refill"}

\* C17: whenever the limiter is quiescent and fewer tokens than its capacity
\* are available, a reset timer is started and neither expired nor cancelled.
C17_NoLostReset ==
    (Quiescent /\ semaphore[1] < limit[1]) =>
        \E k \in DOMAIN timer[1] : timer[1][k].st = "started"

C17_Witness ==
    /\ Quiescent
    /\ \A t \in Threads : pc[t] = "done"
    /\ semaphore[1] < limit[1]
    /\ resets[1] >= 1
    /\ total_calls[1] >= 1

\* C18: whenever no MultiRateLimiter.call is in progress, every member
\* reports the same (successful calls, total calls) pair as the first one.
C18_MembersAgree ==
    (\A t \in Threads : mpc[t] \notin {"call_wait", "call_count"}) =>
        \A i \in Lims : calls(i) = MCalls

C18_Witness ==
    /\ \A t \in Threads : mpc[t] \notin {"call_wait", "call_count"}
    /\ returned = 0 /\ raised = 1
    /\ \A i \in Lims : calls(i) = <<0, 1>>
    /\ Len(limit) = 2

\* C19: for every limiter, used directly or as a member of a
\* MultiRateLimiter, self.current is never negative, the successful calls lie
\* between 0 and the total calls, and no step decreases the total calls.
C19_CountersInRange ==
    [][\A i \in Lims :
          /\ current[i] >= 0 /\ current'[i] >= 0
          /\ 0 <= successful_calls[i] /\ successful_calls[i] <= total_calls[i]
          /\ 0 <= successful_calls'[i] /\ successful_calls'[i] <= total_calls'[i]
          /\ total_calls'[i] >= total_calls[i]
      ]_vars

C19_Witness ==
    /\ \A t \in Threads : pc[t] = "done"
    /\ total_calls = <<2, 1>>
    /\ successful_calls[2] = 0
    /\ successful_calls[1] = returned
    /\ raised >= 1

====
